---- MODULE Spec2Model ----
(***************************************************************************)
(* Model of src/src/instance.rs: the bootstrap of a Vulkan instance for a  *)
(* window (InstanceForWindow::new / with_window), the shared handle        *)
(* (handle(), Arc clones), the teardown (Drop) and the two debug-utils     *)
(* messenger callbacks that the driver invokes on its own thread.          *)
(***************************************************************************)
EXTENDS Integers, Sequences, FiniteSets, TLC

(***************************************************************************)
(* Bounds of the model.                                                    *)
(***************************************************************************)
\* largest number of shared references handed out by handle() at one time
MaxShared == 2
\* largest number of callback invocations by the driver in one run
MaxCallbacks == 1

(***************************************************************************)
(* Names and numbers of the Vulkan API used by instance.rs.                *)
(***************************************************************************)
VALIDATION_LAYER_NAME == "VK_LAYER_KHRONOS_validation"
KHR_PORTABILITY_ENUMERATION_NAME == "VK_KHR_portability_enumeration"
KHR_GET_PHYSICAL_DEVICE_PROPERTIES2_NAME == "VK_KHR_get_physical_device_properties2"
EXT_DEBUG_UTILS_NAME == "VK_EXT_debug_utils"

\* Flag values (vk::...Flags) are modelled as the set of their bits; `|` is \cup
\* and `==` is equality of the sets.
\* vk::InstanceCreateFlags::ENUMERATE_PORTABILITY_KHR is bit 0
ENUMERATE_PORTABILITY_KHR == 1

\* vk::DebugUtilsMessageSeverityFlagsEXT bits
SEVERITY_INFO == 16
SEVERITY_WARNING == 256
SEVERITY_ERROR == 4096
\* vk::DebugUtilsMessageTypeFlagsEXT bits
TYPE_GENERAL == 1
TYPE_VALIDATION == 2
TYPE_PERFORMANCE == 4

VK_FALSE == 0

\* enum VulkanApiVersion
VulkanApiVersion == {"V1_0", "V1_1", "V1_2", "V1_3"}

\* vk::make_api_version(variant, major, minor, patch)
make_api_version(variant, major, minor, patch) ==
    variant * 536870912 + major * 4194304 + minor * 4096 + patch

\* the match of new(): VulkanApiVersion -> vk::API_VERSION_1_x
ApiVersionCode(v) ==
    CASE v = "V1_0" -> make_api_version(0, 1, 0, 0)
      [] v = "V1_1" -> make_api_version(0, 1, 1, 0)
      [] v = "V1_2" -> make_api_version(0, 1, 2, 0)
      [] v = "V1_3" -> make_api_version(0, 1, 3, 0)

(***************************************************************************)
(* enum VulkanDebugInfoStrategy.  A strategy is a record of its variant    *)
(* and the callback it carries (p_fn); Idle carries none.                  *)
(***************************************************************************)
NoCallback == "none"
vulkan_debug_callback_print_all == "vulkan_debug_callback_print_all"
vulkan_debug_callback_panic_on_errors_print_others ==
    "vulkan_debug_callback_panic_on_errors_print_others"

Idle == [variant |-> "Idle", p_fn |-> NoCallback]
DEFAULT_PRINT_ALL ==
    [variant |-> "PrintAll", p_fn |-> vulkan_debug_callback_print_all]
DEFAULT_PANIC_ON_ERRORS ==
    [variant |-> "PanicOnErrorsPrintOthers",
     p_fn |-> vulkan_debug_callback_panic_on_errors_print_others]

VulkanDebugInfoStrategy == {Idle, DEFAULT_PRINT_ALL, DEFAULT_PANIC_ON_ERRORS}

(***************************************************************************)
(* The platform side of new(): the display handle of the window and the    *)
(* surface extensions ash_window::enumerate_required_extensions reports    *)
(* for it.  "Unsupported" stands for a display handle for which the        *)
(* enumeration returns an error, "Unavailable" for a window whose          *)
(* display_handle() fails.                                                 *)
(***************************************************************************)
DisplayKinds == {"Windows", "Wayland", "Xlib", "Xcb", "Android", "AppKit",
                 "Unsupported", "Unavailable"}

enumerate_required_extensions(display) ==
    CASE display = "Windows" -> <<"VK_KHR_surface", "VK_KHR_win32_surface">>
      [] display = "Wayland" -> <<"VK_KHR_surface", "VK_KHR_wayland_surface">>
      [] display = "Xlib"    -> <<"VK_KHR_surface", "VK_KHR_xlib_surface">>
      [] display = "Xcb"     -> <<"VK_KHR_surface", "VK_KHR_xcb_surface">>
      [] display = "Android" -> <<"VK_KHR_surface", "VK_KHR_android_surface">>
      [] display = "AppKit"  -> <<"VK_KHR_surface", "VK_EXT_metal_surface">>

Range(s) == {s[i] : i \in DOMAIN s}

(***************************************************************************)
(* new(), lines 46-73: what is computed from the arguments before the      *)
(* loader is called.                                                       *)
(***************************************************************************)
\* a variant of ExtensionsForWindow that pushes debug-utils whatever the strategy
ExtensionsForWindowAlwaysDebug(platform_exts, debug_strategy) ==
    (platform_exts \o <<KHR_PORTABILITY_ENUMERATION_NAME,
                        KHR_GET_PHYSICAL_DEVICE_PROPERTIES2_NAME>>)
        \o <<EXT_DEBUG_UTILS_NAME>>

\* lines 46-52: the two portability extensions, then debug-utils unless Idle
ExtensionsForWindow(platform_exts, debug_strategy) ==
    LET pushed == platform_exts \o <<KHR_PORTABILITY_ENUMERATION_NAME,
                                     KHR_GET_PHYSICAL_DEVICE_PROPERTIES2_NAME>>
    IN  IF debug_strategy.variant = "Idle"
        THEN pushed
        ELSE Append(pushed, EXT_DEBUG_UTILS_NAME)

\* a variant of EnabledLayers that enables the validation layer whatever the strategy
EnabledLayersAlwaysValidation(debug_strategy) == <<VALIDATION_LAYER_NAME>>

\* lines 61-64
EnabledLayers(debug_strategy) ==
    IF debug_strategy.variant = "Idle" THEN <<>> ELSE <<VALIDATION_LAYER_NAME>>

\* lines 54-59 and 66-73: vk::InstanceCreateInfo
InstanceCreateInfo(platform_exts, debug_strategy, vulkan_api_version) ==
    [api_version |-> ApiVersionCode(vulkan_api_version),
     enabled_extension_names |-> ExtensionsForWindow(platform_exts, debug_strategy),
     enabled_layer_names |-> EnabledLayers(debug_strategy),
     flags |-> {} \cup {ENUMERATE_PORTABILITY_KHR}]

\* a variant of WantsDebugWorker whose match forgets PanicOnErrorsPrintOthers
WantsDebugWorkerPrintAllOnly(debug_strategy) == debug_strategy.variant = "PrintAll"

\* lines 82-85: the match on the strategy that decides whether a messenger is made
WantsDebugWorker(debug_strategy) ==
    debug_strategy.variant \in {"PrintAll", "PanicOnErrorsPrintOthers"}

\* lines 87-98: vk::DebugUtilsMessengerCreateInfoEXT
MessengerCreateInfo(p_fn) ==
    [message_severity |-> {SEVERITY_ERROR} \cup {SEVERITY_WARNING} \cup {SEVERITY_INFO},
     message_type |-> {TYPE_GENERAL} \cup {TYPE_VALIDATION} \cup {TYPE_PERFORMANCE},
     pfn_user_callback |-> p_fn]

\* lines 108-113: the struct new() returns
NoSelf == [alive |-> FALSE, vk_api_version |-> "none", entry |-> "none",
           debug_worker |-> FALSE]
\* a variant of SelfNew that records the version with_window() uses
SelfNewDefaultVersion(vulkan_api_version, debug_worker) ==
    [alive |-> TRUE, vk_api_version |-> "V1_1", entry |-> "linked",
     debug_worker |-> debug_worker]
SelfNew(vulkan_api_version, debug_worker) ==
    [alive |-> TRUE, vk_api_version |-> vulkan_api_version, entry |-> "linked",
     debug_worker |-> debug_worker]

\* the panic messages of new() and drop()
MsgNoWindowHandle == "Failed to get window handle"
MsgNoExtensions == "Failed to enumerate required vulkan extensions for window app"
MsgNoInstance == "Failed to create vulkan instance"
MsgNoMessenger == "Failed to create debug messenger"
MsgStillShared == "Attempted to drop instance while being used by others"

(***************************************************************************)
(* drop(), lines 133-146.                                                  *)
(***************************************************************************)
\* a variant of SoleOwner that only asks for the handle to be alive
SoleOwnerAnyCount(count) == count >= 1

\* line 136: the condition of the assert!
SoleOwner(count) == count = 1

\* a variant of TeardownCalls that destroys the instance first
TeardownCallsInstanceFirst(debug_worker) ==
    IF debug_worker
    THEN <<"destroy_instance", "destroy_debug_utils_messenger">>
    ELSE <<"destroy_instance">>

\* a variant of TeardownCalls that forgets to destroy the instance
TeardownCallsMessengerOnly(debug_worker) ==
    IF debug_worker THEN <<"destroy_debug_utils_messenger">> ELSE <<>>

\* lines 139-144: the loader calls of the teardown, in the order they are made
TeardownCalls(debug_worker) ==
    IF debug_worker
    THEN <<"destroy_debug_utils_messenger", "destroy_instance">>
    ELSE <<"destroy_instance">>

(***************************************************************************)
(* The debug callbacks, lines 161-221.  A C string the driver passes is a  *)
(* pointer: NULL, or <<bytes>> for a pointer to these bytes.  A Rust       *)
(* string is the sequence of its code points.                              *)
(***************************************************************************)
NULL == <<>>
Ptr(bytes) == <<bytes>>
REPLACEMENT_CHARACTER == 65533

\* CStr::to_string_lossy on bytes that are ASCII or 0xFF (never valid in UTF-8)
to_string_lossy(bytes) ==
    [i \in DOMAIN bytes |-> IF bytes[i] < 128 THEN bytes[i] ELSE REPLACEMENT_CHARACTER]

\* lines 170-174, 176-180, 198-202, 204-208
CowOrEmpty(p) == IF p = NULL THEN <<>> ELSE to_string_lossy(p[1])

\* {:?} of a flags value: the names of its bits
SeverityDebug(flags) ==
    {CASE b = SEVERITY_ERROR -> "ERROR"
       [] b = SEVERITY_WARNING -> "WARNING"
       [] b = SEVERITY_INFO -> "INFO" : b \in flags}
TypeDebug(flags) ==
    {CASE b = TYPE_GENERAL -> "GENERAL"
       [] b = TYPE_VALIDATION -> "VALIDATION"
       [] b = TYPE_PERFORMANCE -> "PERFORMANCE" : b \in flags}

\* the format string of lines 183, 212 and 216:
\* "{message_severity:?}:\n{message_type:?} [{message_id_name} ({message_id_number})] : {message}\n"
FormatLine(message_severity, message_type, message_id_name, message_id_number, message) ==
    <<SeverityDebug(message_severity), ":\n", TypeDebug(message_type), " [",
      message_id_name, " (", message_id_number, ")] : ", message, "\n">>

\* what one invocation of a callback does: print a line and return, or panic
\* lines 161-187
print_all(message_severity, message_type, callback_data) ==
    LET message_id_number == callback_data.message_id_number
        message_id_name == CowOrEmpty(callback_data.p_message_id_name)
        message == CowOrEmpty(callback_data.p_message)
    IN  [kind |-> "println",
         text |-> FormatLine(message_severity, message_type, message_id_name,
                             message_id_number, message),
         ret |-> <<VK_FALSE>>]

\* a variant of panic_on_errors_print_others that panics on warnings too
panic_on_warnings_too(message_severity, message_type, callback_data) ==
    LET text == FormatLine(message_severity, message_type,
                           CowOrEmpty(callback_data.p_message_id_name),
                           callback_data.message_id_number,
                           CowOrEmpty(callback_data.p_message))
    IN  IF message_severity \in {{SEVERITY_ERROR}, {SEVERITY_WARNING}}
        THEN [kind |-> "panic", text |-> text, ret |-> <<>>]
        ELSE [kind |-> "println", text |-> text, ret |-> <<VK_FALSE>>]

\* lines 189-221
panic_on_errors_print_others(message_severity, message_type, callback_data) ==
    LET message_id_number == callback_data.message_id_number
        message_id_name == CowOrEmpty(callback_data.p_message_id_name)
        message == CowOrEmpty(callback_data.p_message)
        text == FormatLine(message_severity, message_type, message_id_name,
                           message_id_number, message)
    IN  IF message_severity = {SEVERITY_ERROR}
        THEN [kind |-> "panic", text |-> text, ret |-> <<>>]
        ELSE [kind |-> "println", text |-> text, ret |-> <<VK_FALSE>>]

\* the call through pfn_user_callback
Invoke(p_fn, message_severity, message_type, callback_data) ==
    IF p_fn = vulkan_debug_callback_print_all
    THEN print_all(message_severity, message_type, callback_data)
    ELSE panic_on_errors_print_others(message_severity, message_type, callback_data)

\* what the driver may pass to a callback
Severities == {{SEVERITY_ERROR}, {SEVERITY_WARNING}, {SEVERITY_INFO}}
Types == {{TYPE_GENERAL}, {TYPE_VALIDATION}, {TYPE_PERFORMANCE}}
IdNamePointers == {NULL, Ptr(<<86>>)}
MessagePointers == {NULL, Ptr(<<109, 255>>)}
IdNumbers == {0}
CallbackData ==
    [message_id_number : IdNumbers, p_message_id_name : IdNamePointers,
     p_message : MessagePointers]

(***************************************************************************)
(* State.                                                                  *)
(***************************************************************************)
VARIABLES
    pc,                   \* where the creating thread is
    args,                 \* the arguments of the call of new()
    instance_create_info, \* the vk::InstanceCreateInfo new() assembled
    native_instance,      \* the VkInstance: "none", "alive" or "destroyed"
    messenger,            \* the VkDebugUtilsMessengerEXT and its create info
    self,                 \* the InstanceForWindow
    strong_count,         \* Arc::strong_count of self.handle
    shared,               \* clones of the Arc returned by handle() and still held
    drop_todo,            \* the loader calls drop() has yet to make
    loader_calls,         \* the calls made to the loader, in order
    thread_panic,         \* the message of the creating thread's panic, "" if none
    proc,                 \* "running", or "aborted" by a panic in a callback
    stdout,               \* the lines printed by the callbacks
    cb_panic,             \* the payload of the panic raised in a callback
    last_cb,              \* the last invocation of a callback by the driver
    cb_calls              \* number of invocations of a callback

vars == <<pc, args, instance_create_info, native_instance, messenger, self,
          strong_count, shared, drop_todo, loader_calls, thread_panic, proc,
          stdout, cb_panic, last_cb, cb_calls>>

\* the state of the InstanceForWindow and of the objects it owns
instance_vars == <<pc, args, instance_create_info, native_instance, messenger, self,
                   strong_count, shared, drop_todo, loader_calls, thread_panic>>
\* what a callback may write
callback_vars == <<proc, stdout, cb_panic, last_cb, cb_calls>>

NoArgs == [window |-> "none",
           debug_strategy |-> [variant |-> "none", p_fn |-> NoCallback],
           vulkan_api_version |-> "none"]
NoCreateInfo == [api_version |-> 0, enabled_extension_names |-> <<>>,
                 enabled_layer_names |-> <<>>, flags |-> {}]
NoMessenger == [state |-> "none",
                info |-> [message_severity |-> {}, message_type |-> {},
                          pfn_user_callback |-> NoCallback]]
NoOutcome == [kind |-> "none", text |-> <<>>, ret |-> <<>>]
NoCall == [p_fn |-> NoCallback, message_severity |-> {}, message_type |-> {},
           callback_data |-> [message_id_number |-> 0, p_message_id_name |-> NULL,
                              p_message |-> NULL],
           outcome |-> NoOutcome]

\* results the loader may report
LoaderResults == {"SUCCESS", "ERROR"}

Init ==
    /\ pc = "start"
    /\ args = NoArgs
    /\ instance_create_info = NoCreateInfo
    /\ native_instance = "none"
    /\ messenger = NoMessenger
    /\ self = NoSelf
    /\ strong_count = 0
    /\ shared = 0
    /\ drop_todo = <<>>
    /\ loader_calls = <<>>
    /\ thread_panic = ""
    /\ proc = "running"
    /\ stdout = <<>>
    /\ cb_panic = <<>>
    /\ last_cb = NoCall
    /\ cb_calls = 0

\* a panic of the creating thread inside new()
NewPanics(msg) ==
    /\ pc' = "new_panicked"
    /\ thread_panic' = msg

(***************************************************************************)
(* new(), lines 32-73: the call, the enumeration of the window's           *)
(* extensions and the assembly of the creation parameters.                 *)
(***************************************************************************)
New(window, debug_strategy, vulkan_api_version) ==
    /\ proc = "running"
    /\ pc = "start"
    /\ args' = [window |-> window, debug_strategy |-> debug_strategy,
                vulkan_api_version |-> vulkan_api_version]
    /\ IF window = "Unavailable"
       THEN NewPanics(MsgNoWindowHandle) /\ UNCHANGED instance_create_info
       ELSE IF window = "Unsupported"
       THEN NewPanics(MsgNoExtensions) /\ UNCHANGED instance_create_info
       ELSE /\ instance_create_info' =
                   InstanceCreateInfo(enumerate_required_extensions(window),
                                      debug_strategy, vulkan_api_version)
            /\ pc' = "create_instance"
            /\ UNCHANGED thread_panic
    /\ UNCHANGED <<native_instance, messenger, self, strong_count, shared,
                   drop_todo, loader_calls>>
    /\ UNCHANGED callback_vars

\* with_window(), lines 116-122
WithWindow(window) == New(window, DEFAULT_PANIC_ON_ERRORS, "V1_1")

\* new(), lines 75-80: entry.create_instance(..).expect(..)
CreateInstance(result) ==
    /\ proc = "running"
    /\ pc = "create_instance"
    /\ loader_calls' = Append(loader_calls, "create_instance")
    /\ IF result = "SUCCESS"
       THEN /\ native_instance' = "alive"
            /\ pc' = "debug_worker"
            /\ UNCHANGED thread_panic
       ELSE /\ NewPanics(MsgNoInstance)
            /\ UNCHANGED native_instance
    /\ UNCHANGED <<args, instance_create_info, messenger, self, strong_count,
                   shared, drop_todo>>
    /\ UNCHANGED callback_vars

\* new(), lines 82-106: let debug_worker = match debug_strategy { .. }
CreateDebugWorker(result) ==
    /\ proc = "running"
    /\ pc = "debug_worker"
    /\ IF WantsDebugWorker(args.debug_strategy)
       THEN /\ loader_calls' = Append(loader_calls, "create_debug_utils_messenger")
            /\ IF result = "SUCCESS"
               THEN /\ messenger' =
                           [state |-> "alive",
                            info |-> MessengerCreateInfo(args.debug_strategy.p_fn)]
                    /\ pc' = "construct"
                    /\ UNCHANGED thread_panic
               ELSE /\ NewPanics(MsgNoMessenger)
                    /\ UNCHANGED messenger
       ELSE /\ result = "SUCCESS"
            /\ pc' = "construct"
            /\ UNCHANGED <<loader_calls, messenger, thread_panic>>
    /\ UNCHANGED <<args, instance_create_info, native_instance, self, strong_count,
                   shared, drop_todo>>
    /\ UNCHANGED callback_vars

\* new(), lines 108-114: Self { handle: Arc::new(instance), .. }
Construct ==
    /\ proc = "running"
    /\ pc = "construct"
    /\ self' = SelfNew(args.vulkan_api_version, messenger.state = "alive")
    /\ strong_count' = 1
    /\ pc' = "ready"
    /\ UNCHANGED <<args, instance_create_info, native_instance, messenger, shared,
                   drop_todo, loader_calls, thread_panic>>
    /\ UNCHANGED callback_vars

\* api_version(), lines 124-126
api_version == self.vk_api_version

\* handle(), lines 128-130: self.handle.clone()
Handle ==
    /\ proc = "running"
    /\ pc = "ready"
    /\ shared < MaxShared
    /\ strong_count' = strong_count + 1
    /\ shared' = shared + 1
    /\ UNCHANGED <<pc, args, instance_create_info, native_instance, messenger, self,
                   drop_todo, loader_calls, thread_panic>>
    /\ UNCHANGED callback_vars

\* a holder drops the Arc it got from handle(); ash::Instance has no Drop, so
\* the last Arc going away frees memory only
ReleaseShared ==
    /\ proc = "running"
    /\ shared > 0
    /\ strong_count' = strong_count - 1
    /\ shared' = shared - 1
    /\ UNCHANGED <<pc, args, instance_create_info, native_instance, messenger, self,
                   drop_todo, loader_calls, thread_panic>>
    /\ UNCHANGED callback_vars

(***************************************************************************)
(* drop(), lines 133-146.                                                  *)
(***************************************************************************)
\* lines 135-138: the assert!; on a panic the fields are dropped by the unwinding
DropAssert ==
    /\ proc = "running"
    /\ pc = "ready"
    /\ IF SoleOwner(strong_count)
       THEN /\ pc' = "dropping"
            /\ drop_todo' = TeardownCalls(self.debug_worker)
            /\ UNCHANGED <<self, strong_count, thread_panic>>
       ELSE /\ pc' = "drop_panicked"
            /\ thread_panic' = MsgStillShared
            /\ self' = NoSelf
            /\ strong_count' = strong_count - 1
            /\ UNCHANGED drop_todo
    /\ UNCHANGED <<args, instance_create_info, native_instance, messenger, shared,
                   loader_calls>>
    /\ UNCHANGED callback_vars

\* lines 139-144: the next loader call of the teardown
DropCall ==
    /\ proc = "running"
    /\ pc = "dropping"
    /\ drop_todo # <<>>
    /\ loader_calls' = Append(loader_calls, Head(drop_todo))
    /\ drop_todo' = Tail(drop_todo)
    /\ IF Head(drop_todo) = "destroy_debug_utils_messenger"
       THEN /\ messenger' = [messenger EXCEPT !.state = "destroyed"]
            /\ UNCHANGED native_instance
       ELSE /\ native_instance' = "destroyed"
            /\ UNCHANGED messenger
    /\ UNCHANGED <<pc, args, instance_create_info, self, strong_count, shared,
                   thread_panic>>
    /\ UNCHANGED callback_vars

\* line 145: drop() returns and the fields are dropped
DropFields ==
    /\ proc = "running"
    /\ pc = "dropping"
    /\ drop_todo = <<>>
    /\ pc' = "dropped"
    /\ self' = NoSelf
    /\ strong_count' = strong_count - 1
    /\ UNCHANGED <<args, instance_create_info, native_instance, messenger, shared,
                   drop_todo, loader_calls, thread_panic>>
    /\ UNCHANGED callback_vars

\* a variant of DebugCallback that reaches the InstanceForWindow (through
\* user data) and takes a reference to its handle
DebugCallbackTakingHandle(message_severity, message_type, callback_data) ==
    /\ proc = "running"
    /\ messenger.state = "alive"
    /\ cb_calls < MaxCallbacks
    /\ message_severity \subseteq messenger.info.message_severity
    /\ message_type \cap messenger.info.message_type # {}
    /\ LET p_fn == messenger.info.pfn_user_callback
           outcome == Invoke(p_fn, message_severity, message_type, callback_data)
       IN  /\ last_cb' = [p_fn |-> p_fn, message_severity |-> message_severity,
                          message_type |-> message_type,
                          callback_data |-> callback_data, outcome |-> outcome]
           /\ stdout' = Append(stdout, outcome.text)
           /\ UNCHANGED <<proc, cb_panic>>
    /\ cb_calls' = cb_calls + 1
    /\ strong_count' = strong_count + 1
    /\ UNCHANGED <<pc, args, instance_create_info, native_instance, messenger, self,
                   shared, drop_todo, loader_calls, thread_panic>>

(***************************************************************************)
(* The driver invokes the callback of the messenger, on a thread of its    *)
(* own, for a message of a severity and type the messenger subscribed to.  *)
(* Lines 161-221.                                                          *)
(***************************************************************************)
DebugCallback(message_severity, message_type, callback_data) ==
    /\ proc = "running"
    /\ messenger.state = "alive"
    /\ cb_calls < MaxCallbacks
    /\ message_severity \subseteq messenger.info.message_severity
    /\ message_type \cap messenger.info.message_type # {}
    /\ LET p_fn == messenger.info.pfn_user_callback
           outcome == Invoke(p_fn, message_severity, message_type, callback_data)
       IN  /\ last_cb' = [p_fn |-> p_fn, message_severity |-> message_severity,
                          message_type |-> message_type,
                          callback_data |-> callback_data, outcome |-> outcome]
           /\ IF outcome.kind = "panic"
              THEN /\ proc' = "aborted"
                   /\ cb_panic' = outcome.text
                   /\ UNCHANGED stdout
              ELSE /\ stdout' = Append(stdout, outcome.text)
                   /\ UNCHANGED <<proc, cb_panic>>
    /\ cb_calls' = cb_calls + 1
    /\ UNCHANGED instance_vars

Next ==
    \/ \E w \in DisplayKinds, s \in VulkanDebugInfoStrategy, v \in VulkanApiVersion :
           New(w, s, v)
    \/ \E w \in DisplayKinds : WithWindow(w)
    \/ \E r \in LoaderResults : CreateInstance(r)
    \/ \E r \in LoaderResults : CreateDebugWorker(r)
    \/ Construct
    \/ Handle
    \/ ReleaseShared
    \/ DropAssert
    \/ DropCall
    \/ DropFields
    \/ \E sev \in Severities, ty \in Types, d \in CallbackData :
           DebugCallback(sev, ty, d)

Spec == Init /\ [][Next]_vars

(***************************************************************************)
(* Properties.                                                             *)
(***************************************************************************)
Count(seq, x) == Cardinality({i \in DOMAIN seq : seq[i] = x})

\* new() has returned an InstanceForWindow
Returned == pc \in {"ready", "dropping", "dropped", "drop_panicked"}

\* C1: when an InstanceForWindow holding a messenger is torn down, the messenger
\* is destroyed strictly before the instance: the instance is never destroyed
\* while its messenger is alive, and in the order of the loader calls every
\* destroy_instance of an instance with a messenger follows the
\* destroy_debug_utils_messenger.
MessengerDestroyedBeforeInstance ==
    /\ native_instance = "destroyed" => messenger.state # "alive"
    /\ \A i \in DOMAIN loader_calls :
           (loader_calls[i] = "destroy_instance" /\ messenger.state # "none")
               => \E j \in 1..(i - 1) :
                      loader_calls[j] = "destroy_debug_utils_messenger"
TornDownWithMessenger ==
    /\ pc = "dropped"
    /\ messenger.state = "destroyed"
    /\ native_instance = "destroyed"

\* C2: for every strategy, a release of the InstanceForWindow (the step that
\* leaves "ready") while a reference from handle() is alive ends in the panic of
\* the assertion; no teardown starts and nothing is destroyed.
SharedReleaseFails ==
    [][(pc = "ready" /\ shared >= 1 /\ pc' # "ready")
          => /\ pc' = "drop_panicked"
             /\ thread_panic' = MsgStillShared
             /\ drop_todo' = <<>>
             /\ loader_calls' = loader_calls
             /\ native_instance' = native_instance
             /\ messenger' = messenger]_vars
IdleReleasedWhileShared ==
    /\ pc = "drop_panicked"
    /\ thread_panic = MsgStillShared
    /\ args.debug_strategy = Idle
    /\ shared >= 1

\* C3, as claimed: the native instance is never destroyed while the reference
\* count is above one, never destroyed twice, and once new() has returned and
\* every holder has released (the count is zero) it has been destroyed once.
DestroyedOnceWhenAllReleased ==
    /\ native_instance = "destroyed" => strong_count <= 1
    /\ Count(loader_calls, "destroy_instance") <= 1
    /\ (Returned /\ strong_count = 0)
           => /\ Count(loader_calls, "destroy_instance") = 1
              /\ native_instance = "destroyed"

\* C3, amended: the native instance is destroyed at most once and never while
\* the reference count is above one; it is destroyed exactly once when the
\* InstanceForWindow is released as the only holder; when the InstanceForWindow
\* is released while shared, the release panics and the instance is never
\* destroyed, whoever releases afterwards.
DestroyedOnceBySoleOwner ==
    /\ native_instance = "destroyed" => (strong_count <= 1 /\ shared = 0)
    /\ Count(loader_calls, "destroy_instance") <= 1
    /\ pc = "dropped"
           => /\ Count(loader_calls, "destroy_instance") = 1
              /\ native_instance = "destroyed"
              /\ strong_count = 0
    /\ pc = "drop_panicked"
           => /\ Count(loader_calls, "destroy_instance") = 0
              /\ native_instance = "alive"
SoleOwnerTornDown ==
    /\ pc = "dropped"
    /\ strong_count = 0
    /\ Count(loader_calls, "destroy_instance") = 1
    /\ args.debug_strategy = Idle

\* C4: the extension list passed to instance creation contains the debug-utils
\* extension never for Idle and always for PrintAll and PanicOnErrorsPrintOthers.
DebugUtilsExtensionIffNotIdle ==
    instance_create_info # NoCreateInfo
        => LET names == Range(instance_create_info.enabled_extension_names)
           IN  /\ args.debug_strategy.variant = "Idle"
                      => EXT_DEBUG_UTILS_NAME \notin names
               /\ args.debug_strategy.variant \in {"PrintAll", "PanicOnErrorsPrintOthers"}
                      => EXT_DEBUG_UTILS_NAME \in names
IdleInstanceCreatedWithoutDebugUtils ==
    /\ "create_instance" \in Range(loader_calls)
    /\ native_instance = "alive"
    /\ args.debug_strategy = Idle
    /\ args.window = "Wayland"
    /\ instance_create_info.enabled_extension_names =
           <<"VK_KHR_surface", "VK_KHR_wayland_surface",
             "VK_KHR_portability_enumeration",
             "VK_KHR_get_physical_device_properties2">>

\* C5: the layer list passed to instance creation is empty for Idle and is
\* exactly the validation layer for PrintAll and PanicOnErrorsPrintOthers.
LayersByStrategy ==
    instance_create_info # NoCreateInfo
        => /\ args.debug_strategy.variant = "Idle"
                  => instance_create_info.enabled_layer_names = <<>>
           /\ args.debug_strategy.variant \in {"PrintAll", "PanicOnErrorsPrintOthers"}
                  => instance_create_info.enabled_layer_names =
                         <<"VK_LAYER_KHRONOS_validation">>
PrintAllInstanceCreatedWithValidation ==
    /\ "create_instance" \in Range(loader_calls)
    /\ args.debug_strategy = DEFAULT_PRINT_ALL
    /\ Len(instance_create_info.enabled_layer_names) = 1

\* the line a callback is to produce for the invocation c
ExpectedLine(c) ==
    FormatLine(c.message_severity, c.message_type,
               IF c.callback_data.p_message_id_name = NULL
               THEN <<>> ELSE to_string_lossy(c.callback_data.p_message_id_name[1]),
               c.callback_data.message_id_number,
               IF c.callback_data.p_message = NULL
               THEN <<>> ELSE to_string_lossy(c.callback_data.p_message[1]))
Printed(c) ==
    /\ c.outcome = [kind |-> "println", text |-> ExpectedLine(c), ret |-> <<0>>]
    /\ proc = "running"
    /\ stdout # <<>>
    /\ stdout[Len(stdout)] = ExpectedLine(c)
    /\ cb_panic = <<>>

\* C6: the callbacks of the two strategies differ only on ERROR: on ERROR
\* print_all prints the line, returns false and the process goes on, while
\* panic_on_errors_print_others aborts the process with the same line; on any
\* other severity both print the line and return false.
CallbacksDifferOnlyOnError ==
    last_cb # NoCall
        => /\ last_cb.p_fn = vulkan_debug_callback_print_all => Printed(last_cb)
           /\ (/\ last_cb.p_fn = vulkan_debug_callback_panic_on_errors_print_others
               /\ last_cb.message_severity = {SEVERITY_ERROR})
                  => /\ proc = "aborted"
                     /\ cb_panic = ExpectedLine(last_cb)
                     /\ last_cb.outcome.ret = <<>>
           /\ (/\ last_cb.p_fn = vulkan_debug_callback_panic_on_errors_print_others
               /\ last_cb.message_severity # {SEVERITY_ERROR})
                  => Printed(last_cb)
ErrorAbortedUnderPanicOnErrors ==
    /\ proc = "aborted"
    /\ last_cb.p_fn = vulkan_debug_callback_panic_on_errors_print_others
    /\ last_cb.message_severity = {SEVERITY_ERROR}
    /\ cb_panic # <<>>

\* C7: with the Idle strategy new() fails only where the platform or the loader
\* refuses (never on its own account, whatever the version), the version passed
\* to the loader is the code of the requested version, and api_version() is the
\* requested version for as long as the InstanceForWindow lives, whatever
\* handle() calls and releases happen.
IdleVersionRecorded ==
    args.debug_strategy = Idle
        => /\ pc = "new_panicked"
                  => thread_panic \in {MsgNoWindowHandle, MsgNoExtensions, MsgNoInstance}
           /\ native_instance # "none" => pc # "new_panicked"
           /\ instance_create_info # NoCreateInfo
                  => instance_create_info.api_version =
                         (CASE args.vulkan_api_version = "V1_0" -> 4194304
                            [] args.vulkan_api_version = "V1_1" -> 4198400
                            [] args.vulkan_api_version = "V1_2" -> 4202496
                            [] args.vulkan_api_version = "V1_3" -> 4206592)
           /\ pc \in {"ready", "dropping"}
                  => (self.alive /\ api_version = args.vulkan_api_version)
IdleV13Shared ==
    /\ pc = "ready"
    /\ args.debug_strategy = Idle
    /\ args.vulkan_api_version = "V1_3"
    /\ api_version = "V1_3"
    /\ shared >= 1

\* C8, as claimed: new() leaves no partial state; when it has failed, no native
\* instance is alive.
NoInstanceLeftByFailedNew ==
    pc = "new_panicked" => native_instance # "alive"

\* C9: an InstanceForWindow holds a messenger iff the strategy is not Idle; the
\* messenger is created only after the instance was created, and at most once.
MessengerIffNotIdle ==
    /\ self.alive
           => /\ self.debug_worker <=> args.debug_strategy.variant # "Idle"
              /\ self.debug_worker <=> messenger.state # "none"
    /\ args.debug_strategy.variant = "Idle" => messenger.state = "none"
    /\ messenger.state # "none" => native_instance # "none"
    /\ Count(loader_calls, "create_debug_utils_messenger") <= 1
    /\ \A i \in DOMAIN loader_calls :
           loader_calls[i] = "create_debug_utils_messenger"
               => (i > 1 /\ loader_calls[1] = "create_instance"
                         /\ native_instance # "none")
PanicOnErrorsHoldsMessenger ==
    /\ pc = "ready"
    /\ args.debug_strategy = DEFAULT_PANIC_ON_ERRORS
    /\ self.debug_worker
    /\ messenger.state = "alive"

\* C10: an invocation of a callback, wherever the creating thread is, leaves the
\* InstanceForWindow and everything it owns unchanged; it prints one line or
\* aborts the process.
CallbackLeavesInstanceAlone ==
    [][cb_calls' # cb_calls
          => /\ UNCHANGED instance_vars
             /\ \/ (stdout' = Append(stdout, last_cb'.outcome.text) /\ proc' = proc)
                \/ (stdout' = stdout /\ proc' = "aborted")]_vars
CallbackDuringConstruction ==
    /\ cb_calls > 0
    /\ pc = "construct"
    /\ self = NoSelf

====
